---- MODULE Spec2Model ----
(***************************************************************************)
(* State-machine model of src/src/chatbot.py: the Gradio front end         *)
(* (db_state, the connect button, the chat lambda), chat_interface_predict *)
(* and the LangChain pipeline that get_response builds and invokes.        *)
(*                                                                         *)
(* The database (get_table_info, run) and the completion service are       *)
(* external: each call is a begin step and a return step, and the return   *)
(* picks any text of a small set or raises.  The second assign of          *)
(* get_response holds two keys, which LangChain evaluates as a             *)
(* RunnableParallel: both steps are submitted to a thread pool, the        *)
(* results are awaited in key order and the pool is joined on exit.        *)
(***************************************************************************)
EXTENDS Naturals, Sequences, FiniteSets

\* ------------------------------------------------------------------ bounds
MaxConnects == 2      \* successful connects (distinct handles) in one run
MaxHist == 1          \* length of the Gradio history handed to a turn

\* --------------------------------------------------------------- constants
None == 0

PleaseConnect == "Please connect to the database first."
ErrorPrefix == "Error processing query: "
Unset == "<unset>"

\* inputs of a turn
Messages == {"", "How many artists are there?"}
HistoryPairs == {<<"Name 10 artists", "Here are 10 artists">>,
                 <<"Name 10 artists", "">>,
                 <<"", "Here are 10 artists">>}
Histories == UNION {[1..n -> HistoryPairs] : n \in 0..MaxHist}

\* what the external collaborators can answer
\* a completion wrapped in a Markdown code fence (<fence> is the backtick triple)
FencedSql == "<fence>SELECT Name FROM Artist LIMIT 10;<fence>"
BareSql == "SELECT Name FROM Artist LIMIT 10;"
Completions == {"SELECT COUNT(ArtistId) FROM Artist;", "DROP TABLE Artist;", FencedSql}
Answers == {"There are 275 artists."}
SchemaTexts == {"CREATE TABLE Artist (ArtistId, Name)"}
RunResults == {"[(275,)]", ""}
BuildErr == "OpenAIError: api_key"
SchemaErr == "OperationalError: get_table_info"
RunErr == "ProgrammingError: run"
LlmErr == "APITimeoutError"

VARIABLES
    db_state_value,     \* gr.State(None).value: the component's construction value
    session_db,         \* the session's stored value of db_state (event outputs)
    connection_status,  \* the session's value of the connection_status Markdown
    nextHandle,         \* identity of the next SQLDatabase object created
    pc,                 \* position of the turn's main thread
    turn,               \* arguments of the turn in progress / last turn
    chain,              \* the dict flowing through chain.invoke
    threads,            \* the two steps of the parallel assign
    io,                 \* texts seen at the external interfaces in this turn
    outcome,            \* what the last turn gave its caller
    log                 \* the turn's external operations, in order

vars == <<db_state_value, session_db, connection_status, nextHandle, pc, turn,
          chain, threads, io, outcome, log>>

ui == <<db_state_value, session_db, connection_status, nextHandle>>

\* ----------------------------------------------------------------- helpers
Ev(op, ev) == [op |-> op, ev |-> ev]

RECURSIVE CountLog(_, _, _)
CountLog(l, op, ev) ==
    IF l = <<>> THEN 0
    ELSE (IF Head(l) = Ev(op, ev) THEN 1 ELSE 0) + CountLog(Tail(l), op, ev)

Falsy(s) == s = ""

HumanMessage(c) == [type |-> "human", content |-> c]
AIMessage(c) == [type |-> "ai", content |-> c]

\* lines 124-131: Gradio pairs -> LangChain messages, empty parts skipped,
\* then the current message appended unconditionally
RECURSIVE ConvertHistory(_)
ConvertHistory(h) ==
    IF h = <<>> THEN <<>>
    ELSE (IF Falsy(Head(h)[1]) THEN <<>> ELSE <<HumanMessage(Head(h)[1])>>)
         \o (IF Falsy(Head(h)[2]) THEN <<>> ELSE <<AIMessage(Head(h)[2])>>)
         \o ConvertHistory(Tail(h))

LangchainChatHistory(message, history) ==
    ConvertHistory(history) \o <<HumanMessage(message)>>

StripFences(msg) == IF msg.content = FencedSql THEN BareSql ELSE msg.content
\* StrOutputParser: the text of the model's message, unchanged
StrOutputParser(msg) == msg.content

NeverNone(db) == FALSE
\* line 120: if db is None
IsNone(db) == db = None

KeepPrevious(prev) == prev
\* line 115: the handle returned by a failed connect_to_db
FailedConnectHandle(prev) == None

OnlyResponse == {"response"}
\* lines 88-89: the keys of the second assign
ParallelSteps == {"schema", "response"}

\* the external operation behind each key of the parallel assign
StepOp(k) == IF k = "schema" THEN "schema" ELSE "run"

IdleThread == [st |-> "idle", val |-> Unset]
NoChain == [schema |-> Unset, query |-> Unset, response |-> Unset]
NoIo == [completion |-> Unset, ran |-> Unset,
         nl_query |-> Unset, nl_response |-> Unset, nl_schema |-> Unset]
NoTurn == [entry |-> "none", db |-> None, message |-> "", history |-> <<>>,
           chat_history |-> <<>>, last_ok |-> None]

\* operations of the turn that are in progress right now
InFlight ==
    (IF pc = "sql_schema_wait" THEN {"sql.schema"} ELSE {})
    \cup (IF pc = "sql_llm_wait" THEN {"sql.llm"} ELSE {})
    \cup (IF pc = "nl_llm_wait" THEN {"nl.llm"} ELSE {})
    \cup {StepOp(k) : k \in {j \in DOMAIN threads : threads[j].st = "running"}}

\* -------------------------------------------------------------------- Init
Init ==
    /\ db_state_value = None
    /\ session_db = None
    /\ connection_status = <<"Not connected.">>
    /\ nextHandle = 1
    /\ pc = "idle"
    /\ turn = NoTurn
    /\ chain = NoChain
    /\ threads = [k \in {"schema", "response"} |-> IdleThread]
    /\ io = NoIo
    /\ outcome = [kind |-> "none", text |-> <<>>]
    /\ log = <<>>

\* --------------------------------------------------------- connect button
\* connect_to_db succeeds: a new SQLDatabase; the click stores both outputs
ConnectOk ==
    /\ nextHandle <= MaxConnects
    /\ connection_status' = <<"Connected to database!">>
    /\ session_db' = nextHandle
    /\ nextHandle' = nextHandle + 1
    /\ UNCHANGED <<db_state_value, pc, turn, chain, threads, io, outcome, log>>

\* init_database raises: (failure text, None); the click stores both outputs
ConnectFail ==
    /\ connection_status' = <<"Failed to connect: ", "connection refused">>
    /\ session_db' = FailedConnectHandle(session_db)
    /\ UNCHANGED <<db_state_value, nextHandle, pc, turn, chain, threads, io,
                   outcome, log>>

\* ------------------------------------------------------------ turn entry
\* chat_interface_predict(message, history, db), up to the call of get_response
Predict(entry, message, history, db) ==
    /\ pc = "idle"
    /\ turn' = [entry |-> entry, db |-> db, message |-> message,
                history |-> history,
                chat_history |-> IF IsNone(db) THEN <<>>
                                 ELSE LangchainChatHistory(message, history),
                last_ok |-> nextHandle - 1]
    /\ chain' = NoChain
    /\ threads' = [k \in {"schema", "response"} |-> IdleThread]
    /\ io' = NoIo
    /\ log' = <<>>
    /\ IF IsNone(db)
       THEN /\ outcome' = [kind |-> "text", text |-> <<PleaseConnect>>]
            /\ pc' = "idle"
       ELSE /\ outcome' = [kind |-> "none", text |-> <<>>]
            /\ pc' = "build"
    /\ UNCHANGED ui

\* the ChatInterface lambda: the handle is read from db_state.value
ChatSubmit ==
    \E message \in Messages, history \in Histories :
        Predict("ui", message, history, db_state_value)

\* chat_interface_predict called with a handle of the caller's choosing
CallPredict ==
    \E message \in Messages, history \in Histories,
       db \in {None} \cup (1..(nextHandle - 1)) :
        Predict("call", message, history, db)

\* ------------------------------------------------------------ get_response
FailRegenerate(e) ==
    IF e = RunErr /\ CountLog(log, "llm_sql", "begin") < 2
    THEN /\ outcome' = outcome
         /\ pc' = "sql_llm"
    ELSE /\ outcome' = [kind |-> "text", text |-> <<ErrorPrefix, e>>]
         /\ pc' = "idle"

\* the turn ends inside the try block: the except clause builds the text
Fail(e) ==
    /\ outcome' = [kind |-> "text", text |-> <<ErrorPrefix, e>>]
    /\ pc' = "idle"

\* lines 82-94 run before the try block
BuildOk ==
    /\ pc = "build"
    /\ pc' = "sql_schema"
    /\ log' = Append(log, Ev("build", "ok"))
    /\ UNCHANGED <<ui, turn, chain, threads, io, outcome>>

BuildFail ==
    /\ pc = "build"
    /\ pc' = "idle"
    /\ outcome' = [kind |-> "exception", text |-> <<BuildErr>>]
    /\ log' = Append(log, Ev("build", "fail"))
    /\ UNCHANGED <<ui, turn, chain, threads, io>>

\* sql_chain, first step: assign(schema = db.get_table_info())
SqlSchemaCall ==
    /\ pc = "sql_schema"
    /\ pc' = "sql_schema_wait"
    /\ log' = Append(log, Ev("schema", "begin"))
    /\ UNCHANGED <<ui, turn, chain, threads, io, outcome>>

SqlSchemaOk ==
    /\ pc = "sql_schema_wait"
    /\ \E s \in SchemaTexts : chain' = [chain EXCEPT !.schema = s]
    /\ pc' = "sql_llm"
    /\ log' = Append(log, Ev("schema", "ok"))
    /\ UNCHANGED <<ui, turn, threads, io, outcome>>

SqlSchemaFail ==
    /\ pc = "sql_schema_wait"
    /\ Fail(SchemaErr)
    /\ log' = Append(log, Ev("schema", "fail"))
    /\ UNCHANGED <<ui, turn, chain, threads, io>>

\* sql_chain: prompt | llm
SqlLlmCall ==
    /\ pc = "sql_llm"
    /\ pc' = "sql_llm_wait"
    /\ log' = Append(log, Ev("llm_sql", "begin"))
    /\ UNCHANGED <<ui, turn, chain, threads, io, outcome>>

\* sql_chain: StrOutputParser; assign(query = ...)
SqlLlmOk ==
    /\ pc = "sql_llm_wait"
    /\ \E c \in Completions :
        /\ io' = [io EXCEPT !.completion = c]
        /\ chain' = [chain EXCEPT !.query = StrOutputParser(AIMessage(c)),
                                  !.schema = Unset]
    /\ pc' = "parallel"
    /\ log' = Append(log, Ev("llm_sql", "ok"))
    /\ UNCHANGED <<ui, turn, threads, outcome>>

SqlLlmFail ==
    /\ pc = "sql_llm_wait"
    /\ Fail(LlmErr)
    /\ log' = Append(log, Ev("llm_sql", "fail"))
    /\ UNCHANGED <<ui, turn, chain, threads, io>>

\* second assign: every step is submitted to the executor before any is awaited
ParallelSubmit ==
    /\ pc = "parallel"
    /\ pc' = "join"
    /\ threads' = [k \in DOMAIN threads |->
                     IF k \in ParallelSteps
                     THEN [st |-> "pending", val |-> Unset] ELSE threads[k]]
    /\ UNCHANGED <<ui, turn, chain, io, outcome, log>>

\* a worker thread picks its step up and calls the database
ThreadStart(k) ==
    /\ pc = "join"
    /\ threads[k].st = "pending"
    /\ threads' = [threads EXCEPT ![k].st = "running"]
    /\ io' = IF k = "response" THEN [io EXCEPT !.ran = chain.query] ELSE io
    /\ log' = Append(log, Ev(StepOp(k), "begin"))
    /\ UNCHANGED <<ui, pc, turn, chain, outcome>>

SchemaThreadStart == ThreadStart("schema")
RunThreadStart == ThreadStart("response")

ThreadOk(k, values) ==
    /\ pc = "join"
    /\ threads[k].st = "running"
    /\ \E v \in values : threads' = [threads EXCEPT ![k] = [st |-> "ok", val |-> v]]
    /\ log' = Append(log, Ev(StepOp(k), "ok"))
    /\ UNCHANGED <<ui, pc, turn, chain, io, outcome>>

ThreadFail(k, e) ==
    /\ pc = "join"
    /\ threads[k].st = "running"
    /\ threads' = [threads EXCEPT ![k] = [st |-> "failed", val |-> e]]
    /\ log' = Append(log, Ev(StepOp(k), "fail"))
    /\ UNCHANGED <<ui, pc, turn, chain, io, outcome>>

SchemaThreadOk == ThreadOk("schema", SchemaTexts)
SchemaThreadFail == ThreadFail("schema", SchemaErr)
RunThreadOk == ThreadOk("response", RunResults)
RunThreadFail == ThreadFail("response", RunErr)

Submitted == {k \in DOMAIN threads : threads[k].st # "idle"}
Finished == {k \in DOMAIN threads : threads[k].st \in {"ok", "failed"}}

\* future.result() in key order (schema, response); the executor is joined on exit
JoinOk ==
    /\ pc = "join"
    /\ Submitted = Finished
    /\ \A k \in Submitted : threads[k].st = "ok"
    /\ chain' = [chain EXCEPT !.schema = threads["schema"].val,
                              !.response = threads["response"].val]
    /\ pc' = "nl_llm"
    /\ UNCHANGED <<ui, turn, threads, io, outcome, log>>

JoinFail ==
    /\ pc = "join"
    /\ Submitted = Finished
    /\ \E k \in Submitted : threads[k].st = "failed"
    /\ Fail(IF threads["schema"].st = "failed" THEN threads["schema"].val
            ELSE threads["response"].val)
    /\ UNCHANGED <<ui, turn, chain, threads, io, log>>

\* NL_RESPONSE_PROMPT rendered from the dict, then llm
NlLlmCall ==
    /\ pc = "nl_llm"
    /\ pc' = "nl_llm_wait"
    /\ io' = [io EXCEPT !.nl_query = chain.query, !.nl_response = chain.response,
                        !.nl_schema = chain.schema]
    /\ log' = Append(log, Ev("llm_nl", "begin"))
    /\ UNCHANGED <<ui, turn, chain, threads, outcome>>

\* StrOutputParser, the three logger.info lines, return result
NlLlmOk ==
    /\ pc = "nl_llm_wait"
    /\ \E c \in Answers :
        outcome' = [kind |-> "text", text |-> <<StrOutputParser(AIMessage(c))>>]
    /\ pc' = "idle"
    /\ log' = Append(log, Ev("llm_nl", "ok"))
    /\ UNCHANGED <<ui, turn, chain, threads, io>>

NlLlmFail ==
    /\ pc = "nl_llm_wait"
    /\ Fail(LlmErr)
    /\ log' = Append(log, Ev("llm_nl", "fail"))
    /\ UNCHANGED <<ui, turn, chain, threads, io>>

Next ==
    \/ ConnectOk
    \/ ConnectFail
    \/ ChatSubmit
    \/ CallPredict
    \/ BuildOk
    \/ BuildFail
    \/ SqlSchemaCall
    \/ SqlSchemaOk
    \/ SqlSchemaFail
    \/ SqlLlmCall
    \/ SqlLlmOk
    \/ SqlLlmFail
    \/ ParallelSubmit
    \/ SchemaThreadStart
    \/ RunThreadStart
    \/ SchemaThreadOk
    \/ SchemaThreadFail
    \/ RunThreadOk
    \/ RunThreadFail
    \/ JoinOk
    \/ JoinFail
    \/ NlLlmCall
    \/ NlLlmOk
    \/ NlLlmFail

Spec == Init /\ [][Next]_vars

\* ------------------------------------------------------------------ claims
Ended == pc = "idle" /\ turn.entry # "none"
Succeeded == Ended /\ log # <<>> /\ log[Len(log)] = Ev("llm_nl", "ok")
Failures == {i \in 1..Len(log) : log[i].ev = "fail"}
Begins(op) == CountLog(log, op, "begin")
ErrorText(e) == [kind |-> "text", text |-> <<ErrorPrefix, e>>]

\* C1: a failure at any stage of a turn (building the chains and the client,
\* schema fetch, SQL generation, query execution, synthesis) ends the turn with
\* one error-prefixed text; no exception escapes get_response, nothing is retried.
C1_FailureBecomesErrorText ==
    /\ outcome.kind # "exception"
    /\ (Ended /\ Failures # {}) =>
          /\ outcome.kind = "text"
          /\ Len(outcome.text) = 2
          /\ outcome.text[1] = ErrorPrefix
    /\ \A op \in {"llm_sql", "run", "llm_nl"} : Begins(op) <= 1

\* C2: once a connect has succeeded, every later chat turn of the interface runs
\* its pipeline against the handle of the most recent successful connect, and a
\* turn answers "please connect" only when no connect has succeeded.
C2_TurnUsesConnectedHandle ==
    (turn.entry = "ui" /\ turn.last_ok # None) =>
        /\ turn.db = turn.last_ok
        /\ outcome.text # <<PleaseConnect>>

\* C3: if db.run fails in a turn, the synthesis completion call is never made and
\* the text returned carries the raw execution error.
C3_RunFailureSurfaces ==
    /\ CountLog(log, "run", "fail") > 0 => Begins("llm_nl") = 0
    /\ (Ended /\ CountLog(log, "run", "fail") > 0) => outcome = ErrorText(RunErr)

\* C4: within one turn no two pipeline operations are in progress at the same
\* time, so the connection handle is never used by two operations at once.
C4_OneOperationAtATime == Cardinality(InFlight) <= 1

\* C5: every turn follows Idle -> SchemaFetched -> QueryGenerated -> QueryExecuted
\* -> ResponseSynthesized -> Idle, and a failure at any stage returns the turn to
\* Idle without any later operation being started.
C5_StageOrder ==
    /\ \A i, j \in 1..Len(log) :
          /\ (log[i] = Ev("llm_sql", "begin") /\ j < i) => log[j].op \in {"build", "schema"}
          /\ (log[i] = Ev("llm_sql", "begin")) => \E k \in 1..(i - 1) : log[k] = Ev("schema", "ok")
          /\ (log[i] = Ev("run", "begin")) => \E k \in 1..(i - 1) : log[k] = Ev("llm_sql", "ok")
          /\ (log[i] = Ev("llm_nl", "begin")) => \E k \in 1..(i - 1) : log[k] = Ev("run", "ok")
          /\ (log[i].ev = "fail" /\ i < j) => log[j].ev # "begin"

\* C6 (as stated): a successful turn makes exactly two completion calls and exactly
\* two database round trips (one schema fetch, one query execution), and no turn
\* makes more of either.
C6_TwoCallsTwoRoundTrips ==
    /\ Begins("llm_sql") + Begins("llm_nl") <= 2
    /\ Begins("schema") + Begins("run") <= 2
    /\ Succeeded => /\ Begins("llm_sql") + Begins("llm_nl") = 2
                    /\ Begins("schema") = 1
                    /\ Begins("run") = 1

\* C6 (amended): a successful turn makes exactly two completion calls (SQL
\* generation, synthesis) and exactly three database round trips (two schema
\* fetches through get_table_info, one query execution through run); no turn
\* makes more of any of them.
C6_TwoCallsThreeRoundTrips ==
    /\ Begins("llm_sql") <= 1 /\ Begins("llm_nl") <= 1
    /\ Begins("schema") <= 2 /\ Begins("run") <= 1
    /\ Succeeded => /\ Begins("llm_sql") = 1 /\ Begins("llm_nl") = 1
                    /\ Begins("schema") = 2
                    /\ Begins("run") = 1

C6_Witness == Succeeded /\ Begins("schema") = 2 /\ Begins("run") = 1

\* C7: every natural-language response is synthesized from exactly one generated
\* query and from the result of executing that same query exactly once; SQL
\* generation and execution are never repeated within a turn, whatever fails.
C7_OneQueryOneExecution ==
    /\ Begins("llm_sql") <= 1
    /\ Begins("run") <= 1
    /\ Begins("llm_nl") > 0 =>
          /\ CountLog(log, "llm_sql", "ok") = 1
          /\ CountLog(log, "run", "ok") = 1
          /\ io.nl_query = io.ran
          /\ io.nl_query = chain.query
          /\ threads["response"].st = "ok"
          /\ io.nl_response = threads["response"].val

C7_Witness ==
    /\ Succeeded
    /\ io.nl_query = io.ran
    /\ io.nl_response = "[(275,)]"

C7_WitnessInvalidQuery ==
    /\ Ended
    /\ CountLog(log, "run", "fail") = 1
    /\ Begins("llm_sql") = 1

\* C8: the statement handed to db.run is exactly the text the completion service
\* returned for the SQL-generation prompt, and the synthesis prompt receives the
\* same text as its query: nothing rewrites or filters it, destructive or fenced
\* statements included.
C8_QueryRunsVerbatim ==
    /\ io.ran # Unset => io.ran = io.completion
    /\ io.nl_query # Unset => io.nl_query = io.completion
    /\ chain.query # Unset => chain.query = io.completion

C8_Witness ==
    /\ io.completion = "DROP TABLE Artist;"
    /\ io.ran = "DROP TABLE Artist;"
    /\ threads["response"].st = "ok"
    /\ io.nl_query = "DROP TABLE Artist;"

\* C9: chat_interface_predict called with db None returns the fixed "please
\* connect" message and performs no schema fetch, completion call or query
\* execution, whatever the message and the history are.
C9_NoHandleNoPipeline ==
    (turn.entry # "none" /\ turn.db = None) =>
        /\ pc = "idle"
        /\ outcome = [kind |-> "text", text |-> <<PleaseConnect>>]
        /\ log = <<>>
        /\ InFlight = {}
        /\ io = NoIo

C9_Witness ==
    /\ turn.entry = "call"
    /\ turn.db = None
    /\ turn.message # ""
    /\ turn.history # <<>>
    /\ outcome.text = <<PleaseConnect>>

\* C10: a connect action always overwrites the stored handle with its own outcome:
\* the new connection on success, None on failure even after an earlier success.
C10_ConnectOverwrites ==
    /\ connection_status[1] = "Connected to database!" => session_db = nextHandle - 1
    /\ connection_status[1] = "Failed to connect: " => session_db = None
    /\ connection_status[1] = "Not connected." => session_db = None /\ nextHandle = 1

C10_Witness ==
    /\ connection_status[1] = "Failed to connect: "
    /\ nextHandle > 1
    /\ session_db = None

====
